---- MODULE Spec2Model ----
(***************************************************************************)
(* Model of the Lothis WhatsApp bot (src/index.js): the POST /webhook      *)
(* handler, the SQLite session store and dedup ledger, and the OpenAI      *)
(* Assistants helpers it calls.                                            *)
(*                                                                         *)
(* Node runs one handler at a time until it reaches an `await`; the        *)
(* better-sqlite3 statements are synchronous.  Every action below is one   *)
(* such synchronous segment: it starts when the response of the pending    *)
(* remote call arrives (or when the request arrives) and runs up to and    *)
(* including the initiation of the next remote call.                       *)
(*                                                                         *)
(* Each handler keeps a trace of the externally visible events it has      *)
(* produced, in program order.  Non-ASCII characters of the static         *)
(* messages are written in ASCII.                                          *)
(***************************************************************************)
EXTENDS Integers, Sequences, FiniteSets, TLC

VARIABLES
    threads,     \* table threads: chat_id -> NoRow or [thread_id, language]
    seen,        \* table seen_messages: set of msg_id
    nextThread,  \* number of conversations the remote service has created
    pc,          \* per request: the remote call the handler is waiting for
    req,         \* per request: the inbound request
    loc,         \* per request: the handler's local variables
    trace,       \* per request: events produced so far, in program order
    langSet,     \* history: per chat, the code the last language command stored
    call,        \* history: the last store statement run on its own
    remote       \* the conversation service: messages of each conversation, oldest
                 \* first, and the status of the run each request started

vars == <<threads, seen, nextThread, pc, req, loc, trace, langSet, call, remote>>

(***************************************************************************)
(* Bounds                                                                  *)
(***************************************************************************)
MaxRequests == 2
SlowLatencyMs == 12000
MaxMessages == 2

(***************************************************************************)
(* Program constants                                                       *)
(***************************************************************************)
MaxMs == 25000
PollSleepMs == 500

NULL == "<null>"

Requests == 1..MaxRequests
Chats == {"U1"}
DeliveryIds == {"D1"}
Langs == {"nl", "en", "de"}
Bodies == {"  ", "/start", "Start", "/lang", "/NL", "/en", "/de", " hello "}
Handles == {"thread_1", "thread_2", "abc"}
TerminalStatuses == {"completed", "failed", "cancelled", "expired"}
\* run statuses the service reports
RunStatuses == TerminalStatuses \cup {"queued", "in_progress", "cancelling"}
\* the statuses the requests of the server are answered with
ServedStatuses == TerminalStatuses \cup {"in_progress"}

(***************************************************************************)
(* JavaScript values                                                       *)
(***************************************************************************)
Truthy(v) == v # NULL /\ v # ""

OrNull(v) == IF Truthy(v) THEN v ELSE NULL

UpperChars == "ABCDEFGHIJKLMNOPQRSTUVWXYZ"
LowerChars == "abcdefghijklmnopqrstuvwxyz"

CharAt(s, i) == SubSeq(s, i, i)

LowerOf(c) ==
    IF \E i \in 1..26 : CharAt(UpperChars, i) = c
    THEN CharAt(LowerChars, CHOOSE i \in 1..26 : CharAt(UpperChars, i) = c)
    ELSE c

\* toLowerCase that leaves the text as typed
toLowerCaseIdentity(s) == s

RECURSIVE toLowerCase(_)
toLowerCase(s) ==
    IF Len(s) = 0 THEN ""
    ELSE LowerOf(CharAt(s, 1)) \o toLowerCase(SubSeq(s, 2, Len(s)))

IsSpace(c) == c \in {" ", "\t", "\n", "\r"}

RECURSIVE TrimLeft(_)
TrimLeft(s) ==
    IF Len(s) > 0 /\ IsSpace(CharAt(s, 1)) THEN TrimLeft(SubSeq(s, 2, Len(s))) ELSE s

RECURSIVE TrimRight(_)
TrimRight(s) ==
    IF Len(s) > 0 /\ IsSpace(CharAt(s, Len(s)))
    THEN TrimRight(SubSeq(s, 1, Len(s) - 1)) ELSE s

trim(s) == TrimRight(TrimLeft(s))

\* msg.text?.body?.trim(): undefined when there is no text body
TextOf(body) == IF body = NULL THEN NULL ELSE trim(body)

ThreadName(n) == "thread_" \o CharAt("0123456789", n + 1)
RunName(r) == "run_" \o CharAt("0123456789", r + 1)

Ev(op, a, b) == [op |-> op, a |-> a, b |-> b]

(***************************************************************************)
(* Session store statements                                                *)
(***************************************************************************)
Row(t, l) == [thread_id |-> t, language |-> l]

\* getThread.get(chat) of a chat without a row: every field reads undefined.
\* thread_id is NOT NULL, so no stored row equals it.
NoRow == Row(NULL, NULL)

getThread(c) == threads[c]

\* getLanguage.get(chat)?.language
getLanguage(c) == threads[c].language

COALESCE(a, b) == IF a # NULL THEN a ELSE b

\* upsertThread whose INSERT leaves the language column out
upsertThreadNoLanguage(row, thread_id, language) ==
    IF thread_id = NULL
    THEN [raised |-> TRUE, row |-> row]
    ELSE IF row = NoRow
         THEN [raised |-> FALSE, row |-> Row(thread_id, NULL)]
         ELSE [raised |-> FALSE,
               row |-> Row(thread_id, COALESCE(language, row.language))]

\* upsertThread whose conflict clause takes the new language as it comes
upsertThreadOverwriteLanguage(row, thread_id, language) ==
    IF thread_id = NULL
    THEN [raised |-> TRUE, row |-> row]
    ELSE [raised |-> FALSE, row |-> Row(thread_id, language)]

\* INSERT ... ON CONFLICT(chat_id) DO UPDATE: the NOT NULL constraint on
\* thread_id is raised before the conflict clause is considered.
upsertThread(row, thread_id, language) ==
    IF thread_id = NULL
    THEN [raised |-> TRUE, row |-> row]
    ELSE IF row = NoRow
         THEN [raised |-> FALSE, row |-> Row(thread_id, language)]
         ELSE [raised |-> FALSE,
               row |-> Row(thread_id, COALESCE(language, row.language))]

\* UPDATE threads SET language = ? WHERE chat_id = ?
setLanguage(row, language) ==
    IF row = NoRow THEN NoRow ELSE Row(row.thread_id, language)

\* seenMsg that finds no identifier
seenMsgNever(id) == FALSE

\* SELECT msg_id FROM seen_messages WHERE msg_id = ?
seenMsg(id) == id \in seen

\* INSERT INTO seen_messages: msg_id is the PRIMARY KEY, so inserting an
\* identifier the ledger holds raises and leaves the ledger as it is.  No
\* statement reads created_at; the ledger is the set of its msg_id.
markSeen(id) ==
    IF id \in seen
    THEN [raised |-> TRUE, seen |-> seen]
    ELSE [raised |-> FALSE, seen |-> seen \cup {id}]

(***************************************************************************)
(* Static messages                                                         *)
(***************************************************************************)
WEBSITE_URL == "https://lothis.com"

helpText(lang) ==
    IF lang = "nl"
    THEN "Welkom bij Lothis\n\nCommands:\n/start - intro\n/lang - kies taal (nl/en/de)\n/nl /en /de - zet taal direct\n\nMeer info: " \o WEBSITE_URL
    ELSE IF lang = "de"
    THEN "Willkommen bei Lothis\n\nCommands:\n/start - intro\n/lang - Sprache waehlen (nl/en/de)\n/nl /en /de - Sprache direkt setzen\n\nMehr Info: " \o WEBSITE_URL
    ELSE "Welcome to Lothis\n\nCommands:\n/start - intro\n/lang - choose language (nl/en/de)\n/nl /en /de - set language directly\n\nMore info: " \o WEBSITE_URL

SendTextPrompt(lang) ==
    IF lang = "nl" THEN "Stuur me even tekst :)" ELSE "Please send text :)"

LangPrompt(lang) ==
    IF lang = "nl" THEN "Kies taal door te sturen: /nl, /en, of /de"
    ELSE IF lang = "de" THEN "Waehle Sprache: /nl, /en, oder /de"
    ELSE "Choose language: /nl, /en, or /de"

\* langCmds[text.toLowerCase()]: undefined for any other key
langCmds(key) ==
    IF key = "/nl" THEN "nl"
    ELSE IF key = "/en" THEN "en"
    ELSE IF key = "/de" THEN "de"
    ELSE NULL

ConfirmText(code) ==
    IF code = "nl"
    THEN "Top, we praten Nederlands. Waar zit je hoofd nu het meeste mee?"
    ELSE IF code = "de"
    THEN "Super, wir sprechen Deutsch. Woran denkst du gerade am meisten?"
    ELSE "Nice, we'll talk in English. What's on your mind right now?"

HiccupText(lang) ==
    IF lang = "nl"
    THEN "Ik ben er heel even niet lekker doorheen. Probeer het zo nog een keer."
    ELSE "I'm having a brief hiccup. Please try again in a moment."

TryAgainText(lang) ==
    IF lang = "nl" THEN "Wil je dat nog een keer zeggen?" ELSE "Can you try again?"

\* const content = lang ? `[LANG:${lang}] ${userText}` : userText
Content(lang, userText) ==
    IF Truthy(lang) THEN "[LANG:" \o lang \o "] " \o userText ELSE userText

\* openaiRun: the instructions attached to the run request
RunInstructions(lang) ==
    IF Truthy(lang) THEN "Respond in language: " \o lang ELSE NULL

(***************************************************************************)
(* openaiGetLastAssistantText on the message list of a successful response *)
(***************************************************************************)
Block(type, value) == [type |-> type, value |-> value]
\* array: whether content is an array of blocks
Msg(role, array, content) == [role |-> role, array |-> array, content |-> content]

NoMsg == Msg(NULL, FALSE, <<>>)

\* FindAssistant that keeps the last match of the list
RECURSIVE FindAssistantOldest(_)
FindAssistantOldest(data) ==
    IF data = <<>> THEN NoMsg
    ELSE IF FindAssistantOldest(Tail(data)) # NoMsg THEN FindAssistantOldest(Tail(data))
    ELSE IF Head(data).role = "assistant" THEN Head(data)
    ELSE NoMsg

RECURSIVE FindAssistant(_)
FindAssistant(data) ==
    IF data = <<>> THEN NoMsg
    ELSE IF Head(data).role = "assistant" THEN Head(data)
    ELSE FindAssistant(Tail(data))

RECURSIVE ConcatText(_)
ConcatText(blocks) ==
    IF blocks = <<>> THEN ""
    ELSE (IF Head(blocks).type = "text" /\ Truthy(Head(blocks).value)
          THEN Head(blocks).value ELSE "") \o ConcatText(Tail(blocks))

openaiGetLastAssistantText(data) ==
    LET msg == FindAssistant(data) IN
    IF msg = NoMsg \/ ~msg.array THEN ""
    ELSE trim(ConcatText(msg.content))

\* message lists (newest first) the service answers with
MessageLists ==
    { <<Msg("user", TRUE, <<Block("text", "hello")>>)>>,
      <<Msg("user", TRUE, <<Block("text", "later")>>),
        Msg("assistant", TRUE, <<Block("text", "A1 "), Block("image_file", "img"),
                                 Block("text", "A2 ")>>),
        Msg("assistant", TRUE, <<Block("text", "old")>>)>> }

\* GET /messages?limit=10&order=desc
ListLimit == 10

\* the conversations the service can hold
ThreadIds == Handles \cup { ThreadName(n) : n \in 1..MaxRequests }

\* the service before any conversation has a message or a run
NoRemote ==
    [messages |-> [t \in ThreadIds |-> <<>>], runs |-> [r \in Requests |-> NULL]]

\* body: JSON.stringify({ role: "user", content })
UserMessage(content) == Msg("user", TRUE, <<Block("text", content)>>)

\* the text of the assistant message the run runId produces
AnswerOf(runId) == "answer of " \o runId

AssistantMessage(runId) == Msg("assistant", TRUE, <<Block("text", AnswerOf(runId))>>)

RECURSIVE Reverse(_)
Reverse(s) == IF s = <<>> THEN <<>> ELSE Append(Reverse(Tail(s)), Head(s))

\* ListMessages that asks for order=asc
ListMessagesAscending(t) ==
    SubSeq(remote.messages[t], 1,
           IF Len(remote.messages[t]) < ListLimit THEN Len(remote.messages[t]) ELSE ListLimit)

\* json.data of GET /threads/t/messages?limit=10&order=desc
ListMessages(t) ==
    LET desc == Reverse(remote.messages[t]) IN
    SubSeq(desc, 1, IF Len(desc) < ListLimit THEN Len(desc) ELSE ListLimit)

(***************************************************************************)
(* Handlers                                                                *)
(***************************************************************************)
Request(secretOk, hasMsg, id, from, body) ==
    [secretOk |-> secretOk, hasMsg |-> hasMsg, id |-> id, from |-> from, body |-> body]

NoRequest == Request(FALSE, FALSE, NULL, NULL, NULL)

\* inbound requests: rejected by the shared secret, without a message,
\* without a sender, and messages of a chat with or without a delivery id
RequestInputs ==
    { Request(FALSE, TRUE, "D1", "U1", " hello "),
      Request(TRUE, FALSE, NULL, NULL, NULL) }
    \cup { Request(TRUE, TRUE, id, NULL, " hello ") : id \in DeliveryIds \cup {NULL} }
    \cup { Request(TRUE, TRUE, id, from, body) :
             id \in DeliveryIds \cup {NULL}, from \in Chats, body \in Bodies \cup {NULL} }

NoLoc ==
    [waId |-> NULL, text |-> NULL, code |-> NULL, threadId |-> NULL,
     existingLang |-> NULL, lang |-> NULL, content |-> NULL, runId |-> NULL,
     pollStatus |-> NULL, status |-> NULL, elapsed |-> 0, fetched |-> NULL,
     reply |-> NULL]

Step(r, newpc, newloc, events) ==
    /\ pc' = [pc EXCEPT ![r] = newpc]
    /\ loc' = [loc EXCEPT ![r] = newloc]
    /\ trace' = [trace EXCEPT ![r] = @ \o events]

\* a handler that never acknowledges
NoAcknowledge == <<>>

\* res.sendStatus(200)
Acknowledge == <<Ev("ack", "200", NULL)>>

\* Dedupe without the early return of a delivery already seen
DedupeNoDrop(id) ==
    IF ~Truthy(id) THEN [drop |-> FALSE, seen |-> seen, ev |-> <<>>]
    ELSE [drop |-> FALSE, seen |-> seen \cup {id},
          ev |-> <<Ev("seenMsg", id, NULL), Ev("markSeen", id, NULL)>>]

\* Dedupe without recording the delivery
DedupeNoMark(id) ==
    IF ~Truthy(id) THEN [drop |-> FALSE, seen |-> seen, ev |-> <<>>]
    ELSE [drop |-> seenMsg(id), seen |-> seen, ev |-> <<Ev("seenMsg", id, NULL)>>]

\* if (msg.id && seenMsg.get(id)) return; if (msg.id) markSeen.run(id)
Dedupe(id) ==
    IF ~Truthy(id) THEN [drop |-> FALSE, seen |-> seen, ev |-> <<>>]
    ELSE IF seenMsg(id)
    THEN [drop |-> TRUE, seen |-> seen, ev |-> <<Ev("seenMsg", id, NULL)>>]
    ELSE [drop |-> FALSE, seen |-> markSeen(id).seen,
          ev |-> <<Ev("seenMsg", id, NULL), Ev("markSeen", id, NULL)>>]

\* await waSendText(to, body): the outbound request is issued
SendText(r, l, body, events) ==
    Step(r, "send", [l EXCEPT !.reply = body], events \o <<Ev("send", l.waId, body)>>)

\* a handler that asks again when a call fails
CatchRetry(r, what) ==
    Step(r, pc[r], loc[r],
         <<Ev("error", what, NULL),
           Ev(IF pc[r] = "createThreadCmd" THEN "createThread" ELSE pc[r],
              loc[r].threadId, NULL)>>)

\* catch (e) { console.error(...) }
Catch(r, what) ==
    Step(r, "done", loc[r], <<Ev("error", what, NULL)>>)

\* AddUserMessage with the language read before the wait only
AddUserMessageStale(r, l, tbl, events) ==
    LET lang == l.existingLang
        content == Content(lang, l.text)
    IN  Step(r, "addMessage", [l EXCEPT !.lang = lang, !.content = content],
             events \o <<Ev("addMessage", l.threadId, content)>>)

\* lothisReply from line 224 up to the request of openaiAddUserMessage;
\* tbl is the threads table as this segment reads it
AddUserMessage(r, l, tbl, events) ==
    LET stored == tbl[l.waId].language
        lang == IF Truthy(l.existingLang) THEN l.existingLang ELSE OrNull(stored)
        content == Content(lang, l.text)
    IN  Step(r, "addMessage", [l EXCEPT !.lang = lang, !.content = content],
             events \o <<Ev("addMessage", l.threadId, content)>>)

\* the language commands, lines 305-324
LanguageCommand(r, l, events) ==
    LET row == getThread(l.waId) IN
    IF ~Truthy(row.thread_id)
    THEN /\ Step(r, "createThreadCmd", l, events \o <<Ev("createThread", NULL, NULL)>>)
         /\ UNCHANGED <<threads, langSet>>
    ELSE /\ threads' = [threads EXCEPT ![l.waId] = setLanguage(@, l.code)]
         /\ langSet' = [langSet EXCEPT ![l.waId] = l.code]
         /\ SendText(r, l, ConfirmText(l.code), events)

\* lothisReply up to its first remote request, lines 215-227
lothisReply(r, l0, events) ==
    LET row == getThread(l0.waId)
        l == [l0 EXCEPT !.threadId = row.thread_id,
                        !.existingLang = OrNull(row.language)]
    IN  IF ~Truthy(l.threadId)
        THEN Step(r, "createThread", l, events \o <<Ev("createThread", NULL, NULL)>>)
        ELSE AddUserMessage(r, l, threads, events)

\* app.post("/webhook") up to its first await
Receive(r, q) ==
    /\ pc[r] = "idle"
    /\ \A o \in Requests : o < r => pc[o] # "idle"
    /\ req' = [req EXCEPT ![r] = q]
    /\ UNCHANGED <<nextThread, call, remote>>
    /\ LET d == Dedupe(q.id)
           ev == Acknowledge \o d.ev
           text == TextOf(q.body)
           lang == OrNull(getLanguage(q.from))
           l == [NoLoc EXCEPT !.waId = q.from, !.text = text]
       IN
       IF ~q.secretOk \/ ~q.hasMsg
       THEN Step(r, "done", NoLoc, Acknowledge) /\ UNCHANGED <<threads, seen, langSet>>
       ELSE
       /\ seen' = d.seen
       /\ IF d.drop \/ ~Truthy(q.from)
          THEN Step(r, "done", NoLoc, ev) /\ UNCHANGED <<threads, langSet>>
          ELSE IF ~Truthy(text)
          THEN SendText(r, l, SendTextPrompt(lang), ev) /\ UNCHANGED <<threads, langSet>>
          ELSE IF text = "/start" \/ toLowerCase(text) = "start"
          THEN SendText(r, l, helpText(lang), ev) /\ UNCHANGED <<threads, langSet>>
          ELSE IF text = "/lang"
          THEN SendText(r, l, LangPrompt(lang), ev) /\ UNCHANGED <<threads, langSet>>
          ELSE IF Truthy(langCmds(toLowerCase(text)))
          THEN LanguageCommand(r, [l EXCEPT !.code = langCmds(toLowerCase(text))], ev)
          ELSE lothisReply(r, l, ev) /\ UNCHANGED <<threads, langSet>>

\* openaiCreateThread answers inside lothisReply (lines 220-227)
CreateThreadReturns(r, ok) ==
    /\ pc[r] = "createThread"
    /\ UNCHANGED <<seen, req, langSet, call, remote>>
    /\ IF ~ok
       THEN Catch(r, "Create thread failed") /\ UNCHANGED <<threads, nextThread>>
       ELSE LET threadId == ThreadName(nextThread + 1)
                l == [loc[r] EXCEPT !.threadId = threadId]
                up == upsertThread(threads[l.waId], threadId, l.existingLang)
                tbl == [threads EXCEPT ![l.waId] = up.row]
            IN  /\ nextThread' = nextThread + 1
                /\ threads' = tbl
                /\ IF up.raised
                   THEN Step(r, "done", l, <<Ev("error", "upsertThread", NULL)>>)
                   ELSE AddUserMessage(r, l, tbl, <<>>)

\* openaiCreateThread answers inside a language command (lines 310-322)
CreateThreadCmdReturns(r, ok) ==
    /\ pc[r] = "createThreadCmd"
    /\ UNCHANGED <<seen, req, call, remote>>
    /\ IF ~ok
       THEN Catch(r, "Create thread failed") /\ UNCHANGED <<threads, nextThread, langSet>>
       ELSE LET threadId == ThreadName(nextThread + 1)
                l == [loc[r] EXCEPT !.threadId = threadId]
                up == upsertThread(threads[l.waId], threadId, l.code)
            IN  /\ nextThread' = nextThread + 1
                /\ threads' = [threads EXCEPT ![l.waId] = up.row]
                /\ IF up.raised
                   THEN /\ Step(r, "done", l, <<Ev("error", "upsertThread", NULL)>>)
                        /\ UNCHANGED langSet
                   ELSE /\ langSet' = [langSet EXCEPT ![l.waId] = l.code]
                        /\ SendText(r, l, ConfirmText(l.code), <<>>)

\* openaiAddUserMessage answers; openaiRun is requested (lines 227-228)
AddMessageReturns(r, ok) ==
    /\ pc[r] = "addMessage"
    /\ UNCHANGED <<threads, seen, nextThread, req, langSet, call>>
    /\ IF ~ok
       THEN Catch(r, "Add message failed") /\ UNCHANGED remote
       ELSE /\ Step(r, "run", loc[r],
                    <<Ev("run", loc[r].threadId, RunInstructions(loc[r].lang))>>)
            /\ remote' = [remote EXCEPT !.messages[loc[r].threadId] =
                                           Append(@, UserMessage(loc[r].content))]

\* AfterPoll that gives up on "failed" only
AfterPollFailedOnly(r, l, status) ==
    IF status = "failed"
    THEN SendText(r, [l EXCEPT !.status = status], HiccupText(l.lang), <<>>)
    ELSE Step(r, "getLast", [l EXCEPT !.status = status],
              <<Ev("getLast", l.threadId, NULL)>>)

\* lothisReply after openaiPollRun returned (lines 231-237)
AfterPoll(r, l, status) ==
    IF status # "completed"
    THEN SendText(r, [l EXCEPT !.status = status], HiccupText(l.lang), <<>>)
    ELSE Step(r, "getLast", [l EXCEPT !.status = status],
              <<Ev("getLast", l.threadId, NULL)>>)

\* the head of the loop of openaiPollRun: another status query, or "timeout"
PollLoop(r, l) ==
    IF l.elapsed < MaxMs
    THEN Step(r, "poll", l, <<Ev("poll", l.threadId, l.runId)>>)
    ELSE AfterPoll(r, l, "timeout")

\* openaiRun answers; openaiPollRun starts (lines 228-229, 177-183)
RunReturns(r, ok) ==
    /\ pc[r] = "run"
    /\ UNCHANGED <<threads, seen, nextThread, req, langSet, call>>
    /\ IF ~ok
       THEN Catch(r, "Run failed") /\ UNCHANGED remote
       ELSE /\ PollLoop(r, [loc[r] EXCEPT !.runId = RunName(r), !.elapsed = 0])
            /\ remote' = [remote EXCEPT !.runs[r] = "queued"]

\* the service ends the run of request r; a run that completes adds its
\* assistant message to the conversation
RunEnds(r, status) ==
    /\ remote.runs[r] = "queued"
    /\ remote' = [remote EXCEPT
                    !.runs[r] = status,
                    !.messages[loc[r].threadId] =
                        IF status = "completed"
                        THEN Append(@, AssistantMessage(loc[r].runId)) ELSE @]
    /\ UNCHANGED <<threads, seen, nextThread, pc, req, loc, trace, langSet, call>>

\* PollResult that does not stop on "expired"
PollResultNoExpired(status) ==
    IF status = "completed" THEN "completed"
    ELSE IF status = "failed" \/ status = "cancelled" THEN status
    ELSE NULL

\* what openaiPollRun returns on a status, NULL to keep polling
PollResult(status) ==
    IF status = "completed" THEN "completed"
    ELSE IF status = "failed" \/ status = "cancelled" \/ status = "expired" THEN status
    ELSE NULL

\* a status query answers after latency ms (lines 184-193); elapsed is
\* Date.now() - start as the head of the loop reads it
PollReturns(r, ok, status, latency) ==
    /\ pc[r] = "poll"
    /\ UNCHANGED <<threads, seen, nextThread, req, langSet, call, remote>>
    /\ IF ~ok
       THEN Catch(r, "Poll failed")
       ELSE IF PollResult(status) # NULL
       THEN AfterPoll(r, [loc[r] EXCEPT !.pollStatus = status], PollResult(status))
       ELSE PollLoop(r, [loc[r] EXCEPT !.pollStatus = status,
                                       !.elapsed = @ + latency + PollSleepMs])

\* GetLastReturns that sends the fetched text whatever it is
GetLastReturnsVerbatim(r, ok, data) ==
    /\ pc[r] = "getLast"
    /\ UNCHANGED <<threads, seen, nextThread, req, langSet, call, remote>>
    /\ IF ~ok
       THEN Catch(r, "Get messages failed")
       ELSE LET text == openaiGetLastAssistantText(data) IN
            SendText(r, [loc[r] EXCEPT !.fetched = text], text, <<>>)

\* the message list answers (lines 237-238, 328)
GetLastReturns(r, ok, data) ==
    /\ pc[r] = "getLast"
    /\ UNCHANGED <<threads, seen, nextThread, req, langSet, call, remote>>
    /\ IF ~ok
       THEN Catch(r, "Get messages failed")
       ELSE LET text == openaiGetLastAssistantText(data) IN
            SendText(r, [loc[r] EXCEPT !.fetched = text],
                     IF Truthy(text) THEN text ELSE TryAgainText(loc[r].lang), <<>>)

\* the outbound request answers; a failure is logged by waSendText (lines 89-92)
SendReturns(r, ok) ==
    /\ pc[r] = "send"
    /\ UNCHANGED <<threads, seen, nextThread, req, langSet, call, remote>>
    /\ Step(r, "done", loc[r],
            IF ok THEN <<>> ELSE <<Ev("sendFailed", loc[r].waId, NULL)>>)

(***************************************************************************)
(* A store statement run on its own                                        *)
(***************************************************************************)
NoCall == [stmt |-> NULL, chat |-> NULL, thread_id |-> NULL, language |-> NULL,
           before |-> NoRow, raised |-> FALSE, id |-> NULL, ledger |-> {},
           data |-> <<>>, result |-> NULL]

\* upsertThread.run(chat, thread_id, language, now)
UpsertRun(c, t, l) ==
    /\ call = NoCall
    /\ LET up == upsertThread(threads[c], t, l) IN
       /\ threads' = [threads EXCEPT ![c] = up.row]
       /\ call' = [NoCall EXCEPT !.stmt = "upsertThread", !.chat = c, !.thread_id = t,
                                 !.language = l, !.before = threads[c],
                                 !.raised = up.raised]
    /\ UNCHANGED <<seen, nextThread, pc, req, loc, trace, langSet, remote>>

\* markSeen.run(id, now)
MarkSeenRun(id) ==
    /\ call = NoCall
    /\ seen' = markSeen(id).seen
    /\ call' = [NoCall EXCEPT !.stmt = "markSeen", !.id = id, !.ledger = seen,
                              !.raised = markSeen(id).raised]
    /\ UNCHANGED <<threads, nextThread, pc, req, loc, trace, langSet, remote>>

(***************************************************************************)
(* The server                                                              *)
(***************************************************************************)
Init ==
    /\ threads = [c \in Chats |-> NoRow]
    /\ seen = {}
    /\ nextThread = 0
    /\ pc = [r \in Requests |-> "idle"]
    /\ req = [r \in Requests |-> NoRequest]
    /\ loc = [r \in Requests |-> NoLoc]
    /\ trace = [r \in Requests |-> <<>>]
    /\ langSet = [c \in Chats |-> NULL]
    /\ call = NoCall
    /\ remote = NoRemote

Next ==
    \/ \E r \in Requests, q \in RequestInputs : Receive(r, q)
    \/ \E r \in Requests, ok \in BOOLEAN : CreateThreadReturns(r, ok)
    \/ \E r \in Requests, ok \in BOOLEAN : CreateThreadCmdReturns(r, ok)
    \/ \E r \in Requests, ok \in BOOLEAN : AddMessageReturns(r, ok)
    \/ \E r \in Requests, ok \in BOOLEAN : RunReturns(r, ok)
    \/ \E r \in Requests, ok \in BOOLEAN, status \in ServedStatuses :
          PollReturns(r, ok, status, SlowLatencyMs)
    \/ \E r \in Requests, ok \in BOOLEAN, data \in MessageLists : GetLastReturns(r, ok, data)
    \/ \E r \in Requests, ok \in BOOLEAN : SendReturns(r, ok)

Spec == Init /\ [][Next]_vars

(***************************************************************************)
(* The store statements on any table the server can hold                   *)
(***************************************************************************)
StoredRows == { Row(t, l) : t \in Handles, l \in Langs \cup {NULL} }

StoreInit ==
    /\ threads \in [Chats -> StoredRows \cup {NoRow}]
    /\ seen \in SUBSET DeliveryIds
    /\ nextThread = 0
    /\ pc = [r \in Requests |-> "idle"]
    /\ req = [r \in Requests |-> NoRequest]
    /\ loc = [r \in Requests |-> NoLoc]
    /\ trace = [r \in Requests |-> <<>>]
    /\ langSet = [c \in Chats |-> NULL]
    /\ call = NoCall
    /\ remote = NoRemote

StoreNext ==
    \/ \E c \in Chats, t \in Handles \cup {NULL}, l \in Langs \cup {NULL} :
          UpsertRun(c, t, l)
    \/ \E id \in DeliveryIds : MarkSeenRun(id)

SpecStore == StoreInit /\ [][StoreNext]_vars

(***************************************************************************)
(* openaiGetLastAssistantText on the message lists of a response           *)
(***************************************************************************)
Contents ==
    { <<Block("text", "a")>>,
      <<Block("text", " b "), Block("image_file", "img"), Block("text", "c ")>>,
      <<Block("image_file", "img")>> }

Messages ==
    { Msg(role, TRUE, content) : role \in {"user", "assistant"}, content \in Contents }
    \cup { Msg("assistant", FALSE, <<>>) }

\* json.data, newest first
FetchLists == UNION { [1..n -> Messages] : n \in 0..MaxMessages }

FetchInit ==
    /\ threads = [c \in Chats |-> NoRow]
    /\ seen = {}
    /\ nextThread = 0
    /\ pc = [r \in Requests |-> "idle"]
    /\ req = [r \in Requests |-> NoRequest]
    /\ loc = [r \in Requests |-> NoLoc]
    /\ trace = [r \in Requests |-> <<>>]
    /\ langSet = [c \in Chats |-> NULL]
    /\ remote = NoRemote
    /\ \E data \in FetchLists : call = [NoCall EXCEPT !.stmt = "messages", !.data = data]

\* the body of openaiGetLastAssistantText after a successful response
FetchNext ==
    /\ call.stmt = "messages"
    /\ call' = [call EXCEPT !.stmt = "openaiGetLastAssistantText",
                            !.result = openaiGetLastAssistantText(call.data)]
    /\ UNCHANGED <<threads, seen, nextThread, pc, req, loc, trace, langSet, remote>>

SpecFetch == FetchInit /\ [][FetchNext]_vars

(***************************************************************************)
(* openaiPollRun on its own: request 1 has started a run and issued its    *)
(* first status query; queries answer at once or slowly                    *)
(***************************************************************************)
PollInit ==
    /\ threads = [c \in Chats |-> NoRow]
    /\ seen = {}
    /\ nextThread = 0
    /\ \E t \in Handles, lang \in Langs \cup {NULL} :
          /\ loc = [r \in Requests |->
                      IF r = 1
                      THEN [NoLoc EXCEPT !.waId = "U1", !.text = "hello", !.threadId = t,
                                         !.lang = lang, !.content = Content(lang, "hello"),
                                         !.runId = RunName(1)]
                      ELSE NoLoc]
          /\ trace = [r \in Requests |->
                        IF r = 1 THEN <<Ev("poll", t, RunName(1))>> ELSE <<>>]
    /\ pc = [r \in Requests |-> IF r = 1 THEN "poll" ELSE "idle"]
    /\ req = [r \in Requests |->
                IF r = 1 THEN Request(TRUE, TRUE, NULL, "U1", "hello") ELSE NoRequest]
    /\ langSet = [c \in Chats |-> NULL]
    /\ call = NoCall
    /\ remote = [messages |-> [t \in ThreadIds |->
                                 IF t = loc[1].threadId
                                 THEN <<UserMessage(loc[1].content)>> ELSE <<>>],
                 runs |-> [r \in Requests |-> IF r = 1 THEN "queued" ELSE NULL]]

PollNext ==
    \E ok \in BOOLEAN, status \in RunStatuses, latency \in {0, SlowLatencyMs} :
        PollReturns(1, ok, status, latency)

SpecPoll == PollInit /\ [][PollNext]_vars /\ WF_vars(PollNext)

(***************************************************************************)
(* Messages of a chat whose session holds a conversation handle, with the  *)
(* service answering from the conversation: a status query reads the       *)
(* status of the run, the message list is the list of the conversation     *)
(***************************************************************************)
ThreadInputs ==
    { q \in RequestInputs :
        q.secretOk /\ q.hasMsg /\ Truthy(q.from) /\ q.body = " hello " }

ThreadInit ==
    /\ \E lang \in Langs \cup {NULL} : threads = [c \in Chats |-> Row(ThreadName(1), lang)]
    /\ seen = {}
    /\ nextThread = 1
    /\ pc = [r \in Requests |-> "idle"]
    /\ req = [r \in Requests |-> NoRequest]
    /\ loc = [r \in Requests |-> NoLoc]
    /\ trace = [r \in Requests |-> <<>>]
    /\ langSet = [c \in Chats |-> NULL]
    /\ call = NoCall
    /\ remote = NoRemote

ThreadNext ==
    \/ \E r \in Requests, q \in ThreadInputs : Receive(r, q)
    \/ \E r \in Requests, ok \in BOOLEAN : AddMessageReturns(r, ok)
    \/ \E r \in Requests, ok \in BOOLEAN : RunReturns(r, ok)
    \/ \E r \in Requests, status \in TerminalStatuses : RunEnds(r, status)
    \/ \E r \in Requests, ok \in BOOLEAN :
          PollReturns(r, ok, remote.runs[r], SlowLatencyMs)
    \/ \E r \in Requests, ok \in BOOLEAN :
          GetLastReturns(r, ok, ListMessages(loc[r].threadId))
    \/ \E r \in Requests, ok \in BOOLEAN : SendReturns(r, ok)

SpecThread == ThreadInit /\ [][ThreadNext]_vars

(***************************************************************************)
(* Properties                                                              *)
(***************************************************************************)
RemoteOps == {"createThread", "addMessage", "run", "poll", "getLast"}

Ops(t) == { t[i].op : i \in 1..Len(t) }

Positions(t, ops) == { i \in 1..Len(t) : t[i].op \in ops }

\* request r has called the conversation service or sent an outbound message
HasSideEffect(r) == Positions(trace[r], RemoteOps \cup {"send"}) # {}

\* C1: of the deliveries that carry the same delivery identifier at most one
\* calls the conversation service or sends an outbound message; every other
\* one has returned having done neither.
C1_AtMostOnce ==
    \A r1, r2 \in Requests :
        (r1 # r2 /\ pc[r1] # "idle" /\ pc[r2] # "idle"
           /\ Truthy(req[r1].id) /\ req[r1].id = req[r2].id)
        => \/ pc[r1] = "done" /\ ~HasSideEffect(r1)
           \/ pc[r2] = "done" /\ ~HasSideEffect(r2)

\* a delivery was answered through a completed run and its redelivery dropped
C1_Witness ==
    \E r1, r2 \in Requests :
        /\ r1 # r2 /\ req[r1].id = "D1" /\ req[r2].id = "D1"
        /\ req[r1].secretOk /\ req[r2].secretOk
        /\ pc[r1] = "done" /\ {"addMessage", "run", "poll", "getLast", "send"} \subseteq Ops(trace[r1])
        /\ pc[r2] = "done" /\ Ops(trace[r2]) = {"ack", "seenMsg"}

\* C2 (as claimed): when the createConversation of a first-contact message
\* answers, a conversation handle already stored for the chat is not replaced
\* by a different handle.
C2_HandleKept ==
    [][\A r \in Requests :
          (pc[r] = "createThread" /\ pc'[r] # "createThread") =>
              \A c \in Chats :
                  Truthy(threads[c].thread_id)
                  => threads'[c].thread_id = threads[c].thread_id]_vars

\* C3 (as claimed): a handling aborted by a failed call to the conversation
\* service sends an apology to the user.
C3_ApologyOnRemoteFailure ==
    \A r \in Requests :
        (pc[r] = "done" /\ "error" \in Ops(trace[r]))
        => \E i, j \in 1..Len(trace[r]) :
              i < j /\ trace[r][i].op = "error" /\ trace[r][j].op = "send"

\* C4 (as claimed): upsert on an existing row keeps the stored handle when
\* the supplied handle is null and the stored language when the supplied
\* language is null, overwrites them otherwise, and does not raise.
C4_UpsertKeepsFields ==
    (call.stmt = "upsertThread" /\ call.before # NoRow)
    => /\ ~call.raised
       /\ threads[call.chat] =
            Row(IF call.thread_id # NULL THEN call.thread_id ELSE call.before.thread_id,
                IF call.language # NULL THEN call.language ELSE call.before.language)

NotCompleted == {"failed", "cancelled", "expired", "timeout"}

\* The states of C5: with answered status queries, openaiPollRun keeps
\* polling only while no terminal status was observed and the budget has not
\* elapsed, returns the terminal status it observes, and returns "timeout"
\* without raising once the budget has elapsed.
C5_PollState ==
    LET l == loc[1] IN
    /\ pc[1] = "poll" =>
          /\ l.elapsed < MaxMs
          /\ l.pollStatus \notin TerminalStatuses
          /\ l.status = NULL
          /\ "error" \notin Ops(trace[1])
    /\ (pc[1] # "poll" /\ "error" \notin Ops(trace[1])) =>
          /\ l.status \in TerminalStatuses \cup {"timeout"}
          /\ l.status \in TerminalStatuses => l.pollStatus = l.status
          /\ l.status = "timeout" =>
                l.elapsed >= MaxMs /\ l.pollStatus \notin TerminalStatuses
    /\ l.status = "completed" => l.pollStatus = "completed"

\* C5: openaiPollRun is always in a state as above and eventually stops
\* polling.
C5_PollTerminates == [](C5_PollState) /\ <>(pc[1] # "poll")

\* the budget elapsed after three or more status queries
C5_Witness ==
    /\ loc[1].status = "timeout"
    /\ loc[1].pollStatus = "queued"
    /\ loc[1].elapsed >= MaxMs
    /\ Cardinality(Positions(trace[1], {"poll"})) >= 3
    /\ pc[1] = "send"

\* C6: for every language, a run that timed out is answered exactly as a run
\* that failed, was cancelled or expired: by the one static message of that
\* language, without fetching the assistant's text.
C6_NotCompletedReply ==
    /\ \A r \in Requests :
          loc[r].status \in NotCompleted =>
              /\ "getLast" \notin Ops(trace[r])
              /\ Cardinality(Positions(trace[r], {"send"})) = 1
              /\ \A i \in Positions(trace[r], {"send"}) :
                    trace[r][i] = Ev("send", loc[r].waId, HiccupText(loc[r].lang))
    /\ \A r1, r2 \in Requests :
          (loc[r1].status = "timeout" /\ loc[r2].status \in NotCompleted
             /\ loc[r1].lang = loc[r2].lang)
          => loc[r1].reply = loc[r2].reply

\* a run timed out for a Dutch chat and the static message was sent
C6_Witness ==
    \E r \in Requests :
        /\ loc[r].status = "timeout" /\ loc[r].lang = "nl" /\ pc[r] = "done"
        /\ "send" \in Ops(trace[r])

\* request r is a language command that found no session for its chat
NewChatCommand(r) == loc[r].code # NULL /\ "createThread" \in Ops(trace[r])

\* C7: a language command for a chat without a session calls
\* createConversation once and neither appendMessage nor startRun; when the
\* conversation is created it stores the new handle with the requested
\* language and sends the confirmation of that language.
C7_CommandState ==
    \A r \in Requests :
        NewChatCommand(r) =>
            /\ Cardinality(Positions(trace[r], {"createThread"})) = 1
            /\ Positions(trace[r], {"addMessage", "run", "poll", "getLast"}) = {}
            /\ loc[r].code \in Langs
            /\ toLowerCase(loc[r].text) = "/" \o loc[r].code
            /\ Cardinality(Positions(trace[r], {"send"})) <= 1
            /\ \A i \in Positions(trace[r], {"send"}) :
                  trace[r][i] = Ev("send", loc[r].waId, ConfirmText(loc[r].code))
            /\ (pc[r] = "done" /\ "error" \notin Ops(trace[r])) => "send" \in Ops(trace[r])

C7_CommandStore ==
    \A r \in Requests :
        (pc[r] = "createThreadCmd" /\ pc'[r] # "createThreadCmd") =>
            \/ pc'[r] = "done" /\ "error" \in Ops(trace'[r]) /\ threads' = threads
            \/ /\ pc'[r] = "send"
               /\ Truthy(loc'[r].threadId)
               /\ \A c \in Chats : threads[c].thread_id # loc'[r].threadId
               /\ \A o \in Requests : loc[o].threadId # loc'[r].threadId
               /\ threads'[loc[r].waId] = Row(loc'[r].threadId, loc[r].code)

\* C7: both parts, in every state and at every step of a language command
\* for a chat without a session.
C7_LanguageCommandNewChat == [](C7_CommandState) /\ [][C7_CommandStore]_vars

\* "/en" on a new chat: session stored, confirmation sent, nothing else called
C7_Witness ==
    \E r \in Requests :
        /\ req[r].body = "/en" /\ pc[r] = "done"
        /\ Ops(trace[r]) = {"ack", "createThread", "send"}
        /\ threads["U1"] = Row(loc[r].threadId, "en")
        /\ loc[r].reply = "Nice, we'll talk in English. What's on your mind right now?"

\* C8: once a language command has stored code L for a chat, a passthrough
\* message of that chat appends "[LANG:L] " followed by the user's text, L
\* being the code of the last such command when the content is built; the run
\* of the same handling is started with the language of that tag.
C8_TagAtAppend ==
    \A r \in Requests :
        ("addMessage" \notin Ops(trace[r]) /\ "addMessage" \in Ops(trace'[r])
           /\ langSet[loc'[r].waId] # NULL)
        => trace'[r][Len(trace'[r])] =
              Ev("addMessage", loc'[r].threadId,
                 "[LANG:" \o langSet[loc'[r].waId] \o "] " \o loc'[r].text)

C8_RunMatchesTag ==
    \A r \in Requests :
        \A i \in Positions(trace[r], {"run"}) :
            /\ i > 1 /\ trace[r][i - 1].op = "addMessage"
            /\ \/ /\ trace[r][i - 1].b = loc[r].text
                  /\ trace[r][i].b = NULL
               \/ \E L \in Langs :
                     /\ trace[r][i - 1].b = "[LANG:" \o L \o "] " \o loc[r].text
                     /\ trace[r][i].b = "Respond in language: " \o L

\* C8: the appended content carries the tag of the last language command
\* and the run is started with the language of that tag.
C8_LanguageTag == [](C8_RunMatchesTag) /\ [][C8_TagAtAppend]_vars

\* after "/NL", "hello" was appended with the nl tag and run in nl
C8_Witness ==
    \E r \in Requests :
        /\ langSet["U1"] = "nl"
        /\ \E i \in 1..Len(trace[r]) :
              trace[r][i] = Ev("addMessage", loc[r].threadId, "[LANG:nl] hello")
        /\ \E i \in 1..Len(trace[r]) :
              trace[r][i] = Ev("run", loc[r].threadId, "Respond in language: nl")

\* C9: a delivery that carries an identifier has checked the ledger and, when
\* it was not dropped, recorded the identifier before its first call to the
\* conversation service and before its first outbound send.
C9_DedupeFirst ==
    \A r \in Requests :
        Truthy(req[r].id) =>
            \A i \in Positions(trace[r], RemoteOps \cup {"send"}) :
                /\ req[r].id \in seen
                /\ \E j, k \in 1..(i - 1) :
                      /\ j < k
                      /\ trace[r][j] = Ev("seenMsg", req[r].id, NULL)
                      /\ trace[r][k] = Ev("markSeen", req[r].id, NULL)

\* a delivery with an identifier has been recorded and answered
C9_Witness ==
    \E r \in Requests :
        /\ req[r].id = "D1" /\ pc[r] = "done"
        /\ {"seenMsg", "markSeen", "createThread", "addMessage", "send"} \subseteq Ops(trace[r])

\* C10: every request is acknowledged once, before anything else it does,
\* whatever becomes of its handling.
C10_AckFirst ==
    \A r \in Requests :
        pc[r] # "idle" =>
            /\ Len(trace[r]) >= 1
            /\ Positions(trace[r], {"ack"}) = {1}

\* one request was dropped as a duplicate, the other aborted by a remote
\* failure after its run had been polled; both were acknowledged first
C10_Witness ==
    \E r1, r2 \in Requests :
        /\ pc[r1] = "done" /\ Ops(trace[r1]) = {"ack", "seenMsg"}
        /\ pc[r2] = "done" /\ {"poll", "error"} \subseteq Ops(trace[r2])
        /\ trace[r1][1].op = "ack" /\ trace[r2][1].op = "ack"


\* C11 (as claimed): recording a delivery identifier the ledger already holds
\* does not raise and leaves the ledger unchanged.
C11_MarkSeenIdempotent ==
    (call.stmt = "markSeen" /\ call.id \in call.ledger)
    => ~call.raised /\ seen = call.ledger


\* the values of the text blocks 1..n of a content, joined in their order
RECURSIVE JoinText(_, _)
JoinText(blocks, n) ==
    IF n = 0 THEN ""
    ELSE JoinText(blocks, n - 1)
         \o (IF blocks[n].type = "text" THEN blocks[n].value ELSE "")

\* the text segments of the newest assistant message of data, "" without one
NewestAssistantText(data) ==
    LET At == { i \in 1..Len(data) : data[i].role = "assistant" } IN
    IF At = {} THEN ""
    ELSE LET i == CHOOSE i \in At : \A j \in At : i <= j IN
         IF data[i].array THEN JoinText(data[i].content, Len(data[i].content)) ELSE ""

Fetched == call.stmt = "openaiGetLastAssistantText"

\* C12 (as claimed): the result is the concatenation of the text segments of
\* the newest assistant message, and "" when no message is the assistant's.
C12_Concatenation == Fetched => call.result = NewestAssistantText(call.data)

\* C12 (amended): the result is that concatenation with its leading and
\* trailing whitespace removed, and "" when no message is the assistant's.
C12_TrimmedConcatenation ==
    Fetched =>
        /\ call.result = trim(NewestAssistantText(call.data))
        /\ (\A i \in 1..Len(call.data) : call.data[i].role # "assistant")
              => call.result = ""

\* a newer user message, then two assistant messages: the first one's two
\* text segments are returned
C12_Witness ==
    /\ Fetched
    /\ Len(call.data) = 2
    /\ call.data[1].role = "assistant" /\ Len(call.data[1].content) = 3
    /\ call.data[2].role = "assistant" /\ Len(call.data[2].content) = 1
    /\ call.result = "b c"


\* request r is a language command that writes the store in this step
CommandWrites(r) ==
    /\ loc'[r].code # NULL
    /\ \/ pc[r] = "idle" /\ pc'[r] = "send"
       \/ pc[r] = "createThreadCmd" /\ pc'[r] = "send"

\* C13 (as claimed): the store write of a language command for code L leaves
\* L as the stored language of the chat, and leaves the conversation handle
\* of a session that exists unchanged.
C13_CommandOverrides ==
    [][\A r \in Requests :
          CommandWrites(r) =>
              LET c == loc'[r].waId IN
              /\ threads'[c].language = loc'[r].code
              /\ threads[c] # NoRow => threads'[c].thread_id = threads[c].thread_id]_vars


\* request r, a passthrough message, takes a step
PassthroughActs(r) ==
    /\ trace'[r] # trace[r]
    /\ "createThread" \in Ops(trace'[r]) \/ "addMessage" \in Ops(trace'[r])
    /\ loc'[r].code = NULL

\* C14: no step of a passthrough handler, its upsert after the conversation
\* is created included, changes the language stored for any chat; what was
\* stored immediately before the step is stored after it.
C14_PassthroughKeepsLanguage ==
    [][\A r \in Requests :
          PassthroughActs(r) =>
              \A c \in Chats : threads'[c].language = threads[c].language]_vars

\* a passthrough message waited for its conversation while a language
\* command stored "nl"; the passthrough's upsert has run since
C14_Witness ==
    \E r \in Requests :
        /\ loc[r].code = NULL
        /\ Positions(trace[r], {"createThread"}) # {}
        /\ Positions(trace[r], {"addMessage"}) # {}
        /\ threads[loc[r].waId] = Row(loc[r].threadId, "nl")
        /\ \E o \in Requests : o > r /\ loc[o].code = "nl" /\ loc[o].threadId # loc[r].threadId
                                /\ Truthy(loc[o].threadId)


\* the static answer to an empty text, a start command or "/lang", in the
\* language lang; NULL for any other body
StaticAnswer(body, lang) ==
    IF body = NULL \/ body \in {"", " ", "  "} THEN SendTextPrompt(lang)
    ELSE IF body \in {"/start", "start", "Start", "START"} THEN helpText(lang)
    ELSE IF body = "/lang" THEN LangPrompt(lang)
    ELSE NULL

\* the message of request r gets past the secret, the dedupe and the sender
\* checks and is one of the static cases
StaticHandled(r) ==
    /\ req'[r].secretOk /\ req'[r].hasMsg /\ Truthy(req'[r].from)
    /\ ~(Truthy(req'[r].id) /\ req'[r].id \in seen)
    /\ StaticAnswer(req'[r].body, NULL) # NULL

\* C15: a message whose text is empty or whitespace, a start command or
\* "/lang" leaves the session store unchanged, calls the conversation service
\* never, and sends exactly one message: the static text of its case in the
\* language stored for the chat.
C15_StaticCommands ==
    [][\A r \in Requests :
          /\ (pc[r] = "idle" /\ pc'[r] # "idle" /\ StaticHandled(r)) =>
                 LET t == trace'[r]
                     lang == OrNull(threads[req'[r].from].language)
                 IN  /\ threads' = threads
                     /\ pc'[r] = "send"
                     /\ Positions(t, RemoteOps) = {}
                     /\ Positions(t, {"send"}) = {Len(t)}
                     /\ t[Len(t)] = Ev("send", req'[r].from,
                                      StaticAnswer(req'[r].body, lang))
          /\ (pc[r] = "send" /\ pc'[r] # "send"
                 /\ StaticAnswer(req[r].body, NULL) # NULL) =>
                 /\ threads' = threads
                 /\ pc'[r] = "done"
                 /\ Positions(trace'[r], RemoteOps) = {}
                 /\ Cardinality(Positions(trace'[r], {"send"})) = 1]_vars

\* "Start" from a chat whose stored language is German was answered with the
\* German introduction, and the handler has returned
C15_Witness ==
    \E r \in Requests :
        /\ req[r].body = "Start"
        /\ pc[r] = "done"
        /\ threads[req[r].from].language = "de"
        /\ Ev("send", req[r].from, helpText("de")) \in { trace[r][i] : i \in 1..Len(trace[r]) }


\* the bodies that are language commands
LanguageBodies == {"/nl", "/NL", "/en", "/EN", "/de", "/DE"}

\* a text that is neither static nor a language command
PassthroughBody(body) == StaticAnswer(body, NULL) = NULL /\ body \notin LanguageBodies

\* every call of the conversation service in t names the handle h
CallsUse(t, h) == \A i \in Positions(t, RemoteOps) : t[i].a = h

\* C16: a passthrough message received while the session of its chat holds
\* a conversation handle never creates a conversation and never writes the
\* threads table; every call it makes names the handle that was stored when
\* it was received; when the run completed, it sends the fetched assistant
\* text if that is non-empty and the try-again message otherwise.
C16_SessionReused ==
    [][\A r \in Requests :
          /\ (pc[r] = "idle" /\ pc'[r] # "idle" /\ PassthroughBody(req'[r].body)
                 /\ req'[r].secretOk /\ req'[r].hasMsg /\ Truthy(req'[r].from)
                 /\ ~(Truthy(req'[r].id) /\ req'[r].id \in seen)
                 /\ Truthy(threads[req'[r].from].thread_id)) =>
                 /\ threads' = threads
                 /\ pc'[r] = "addMessage"
                 /\ loc'[r].threadId = threads[req'[r].from].thread_id
                 /\ CallsUse(trace'[r], loc'[r].threadId)
                 /\ "createThread" \notin Ops(trace'[r])
          /\ (pc[r] \notin {"idle", "done"} /\ PassthroughBody(req[r].body)
                 /\ "createThread" \notin Ops(trace[r])
                 /\ (trace'[r] # trace[r] \/ pc'[r] # pc[r])) =>
                 /\ threads' = threads
                 /\ loc'[r].threadId = loc[r].threadId
                 /\ CallsUse(trace'[r], loc[r].threadId)
                 /\ "createThread" \notin Ops(trace'[r])
                 /\ (pc[r] = "getLast" /\ pc'[r] = "send") =>
                        /\ loc[r].status = "completed"
                        /\ loc'[r].reply = IF loc'[r].fetched # ""
                                           THEN loc'[r].fetched
                                           ELSE TryAgainText(loc[r].lang)
                        /\ trace'[r][Len(trace'[r])]
                              = Ev("send", loc[r].waId, loc'[r].reply)
                 /\ pc'[r] = "send" => pc[r] \in {"poll", "getLast"}]_vars

\* a passthrough message that found the handle of its session fetched an
\* empty text after a completed run and sent the try-again message
C16_Witness ==
    \E r \in Requests :
        /\ PassthroughBody(req[r].body)
        /\ pc[r] = "done"
        /\ "createThread" \notin Ops(trace[r])
        /\ loc[r].status = "completed"
        /\ loc[r].fetched = ""
        /\ loc[r].reply = TryAgainText(loc[r].lang)
        /\ threads[loc[r].waId].thread_id = loc[r].threadId


\* the failures of the conversation service as the handler logs them
RemoteFailures ==
    {"Create thread failed", "Add message failed", "Run failed", "Poll failed",
     "Get messages failed"}

\* positions in t of a failed call of the conversation service
Failures(t) == { i \in 1..Len(t) : t[i].op = "error" /\ t[i].a \in RemoteFailures }

\* C17: once a call of the conversation service has failed, the handler
\* calls the service no more, so no call is made again; apart from the
\* status query no call is made twice; and the step on which
\* openaiCreateThread fails leaves the threads table as it was.
C17_NoRetry ==
    [][\A r \in Requests :
          trace'[r] # trace[r] =>
              LET t == trace'[r] IN
              /\ \A i \in Failures(t) : \A j \in Positions(t, RemoteOps) : j < i
              /\ \A op \in RemoteOps \ {"poll"} : Cardinality(Positions(t, {op})) <= 1
              /\ Failures(t) # {} => pc'[r] = "done"
              /\ (t[Len(t)] = Ev("error", "Create thread failed", NULL)) =>
                     threads' = threads /\ nextThread' = nextThread]_vars

\* a status query failed after an earlier one had answered, and the handler
\* has returned
C17_Witness ==
    \E r \in Requests :
        /\ pc[r] = "done"
        /\ Cardinality(Positions(trace[r], {"poll"})) = 2
        /\ trace[r][Len(trace[r])] = Ev("error", "Poll failed", NULL)


\* request r carried a message with a delivery identifier past the secret
Admitted(r) == pc[r] # "idle" /\ req[r].secretOk /\ req[r].hasMsg /\ Truthy(req[r].id)

\* the handling of request r was given up: a call of the conversation
\* service failed, the outbound message failed, or the sender was missing
Aborted(r) ==
    /\ pc[r] = "done"
    /\ \/ Failures(trace[r]) # {}
       \/ "sendFailed" \in Ops(trace[r])
       \/ ~Truthy(req[r].from)

\* request r has returned after an outbound message that was accepted
Answered(r) ==
    pc[r] = "done" /\ "send" \in Ops(trace[r]) /\ "sendFailed" \notin Ops(trace[r])

\* the identifier is recorded before anything of request r can fail; a
\* later delivery of an identifier is dropped with nothing called and
\* nothing sent; after a first handling that was given up no delivery of
\* the identifier is answered
RedeliveryDropped ==
    /\ \A r \in Requests :
          (Admitted(r) /\ "markSeen" \in Ops(trace[r])) =>
              /\ req[r].id \in seen
              /\ \A i \in Positions(trace[r], {"markSeen"}) :
                    \A j \in Positions(trace[r], RemoteOps \cup {"send", "error", "sendFailed"}) :
                        i < j
    /\ \A r1, r2 \in Requests :
          (Admitted(r1) /\ Admitted(r2) /\ r1 < r2 /\ req[r1].id = req[r2].id) =>
              /\ req[r1].id \in seen
              /\ pc[r2] = "done"
              /\ trace[r2] = <<Ev("ack", "200", NULL), Ev("seenMsg", req[r2].id, NULL)>>
              /\ Aborted(r1) => ~Answered(r1) /\ ~Answered(r2)

\* C18: a delivery identifier is recorded before its handling can fail and
\* is never removed from the ledger; every later delivery of it is dropped
\* without a call of the conversation service or an outbound message, so a
\* message whose first handling was given up is never answered.
C18_AbortedNeverAnswered ==
    [][seen \subseteq seen' /\ RedeliveryDropped']_vars

\* the first handling of D1 was given up on a failed status query and the
\* redelivery of D1 was dropped
C18_Witness ==
    \E r1, r2 \in Requests :
        /\ r1 < r2 /\ Admitted(r1) /\ Admitted(r2) /\ req[r1].id = req[r2].id
        /\ Aborted(r1) /\ "poll" \in Ops(trace[r1]) /\ Failures(trace[r1]) # {}
        /\ pc[r2] = "done" /\ ~HasSideEffect(r2)


\* the assistant message added last to the conversation t, NoMsg if none
LastAssistant(t) ==
    LET msgs == remote.messages[t]
        I == { i \in 1..Len(msgs) : msgs[i].role = "assistant" }
    IN  IF I = {} THEN NoMsg ELSE msgs[CHOOSE i \in I : \A j \in I : j <= i]

\* request r has sent the reply it fetched after its run completed
RepliedFromFetch(r) ==
    loc[r].status = "completed" /\ loc[r].fetched # NULL /\ pc[r] \in {"send", "done"}

\* C19 (as claimed): a passthrough message whose run completed is answered
\* with the assistant message of its own run, whatever the other message on
\* the same conversation handle has done in between.
C19_OwnReply ==
    \A r \in Requests :
        RepliedFromFetch(r) => loc[r].reply = AnswerOf(loc[r].runId)

\* C19 (amended): a passthrough message whose run completed is answered with
\* the assistant message that is the newest of the conversation when the
\* message list answers: the message of a completed run on that handle,
\* its own or the other message's.
C19_NewestReply ==
    [][\A r \in Requests :
          (pc[r] = "getLast" /\ pc'[r] = "send") =>
              LET newest == LastAssistant(loc[r].threadId) IN
              /\ loc[r].status = "completed"
              /\ remote.runs[r] = "completed"
              /\ newest # NoMsg
              /\ loc'[r].reply = newest.content[1].value
              /\ \E o \in Requests :
                    /\ remote.runs[o] = "completed"
                    /\ loc[o].threadId = loc[r].threadId
                    /\ loc'[r].reply = AnswerOf(loc[o].runId)]_vars

\* two messages on one conversation handle, both runs completed, and the
\* first message was answered with the assistant message of the second run
C19_Witness ==
    \E r, o \in Requests :
        /\ r < o
        /\ loc[r].threadId = loc[o].threadId
        /\ RepliedFromFetch(r)
        /\ pc[r] = "done"
        /\ remote.runs[o] = "completed"
        /\ loc[r].reply = AnswerOf(loc[o].runId)


\* request r builds the content of its message in this step
BuildsContent(r) ==
    "addMessage" \notin Ops(trace[r]) /\ "addMessage" \in Ops(trace'[r])

\* C20: the content a passthrough handler appends is tagged with the
\* language the threads table holds for the chat when the content is built,
\* and is the bare text when it holds none; a handler that waited for
\* openaiCreateThread uses the language stored during the wait.
C20_TagFromStore ==
    [][\A r \in Requests :
          BuildsContent(r) =>
              LET stored == OrNull(threads'[loc'[r].waId].language)
                  tagged == IF stored = NULL THEN loc'[r].text
                            ELSE "[LANG:" \o stored \o "] " \o loc'[r].text
              IN  /\ threads'[loc'[r].waId].language = threads[loc'[r].waId].language
                  /\ loc'[r].lang = stored
                  /\ loc'[r].content = tagged
                  /\ trace'[r][Len(trace'[r])] = Ev("addMessage", loc'[r].threadId, tagged)]_vars

\* a handler found no session and no language, waited for its conversation,
\* and tagged its content with the "de" stored during the wait
C20_Witness ==
    \E r \in Requests :
        /\ Positions(trace[r], {"createThread"}) # {}
        /\ loc[r].existingLang = NULL
        /\ loc[r].lang = "de"
        /\ loc[r].content = "[LANG:de] hello"
        /\ pc[r] = "addMessage"

====
